---- MODULE Spec2Model ----
(***************************************************************************)
(* Model of custom-discord.py, the Wazuh -> Discord alert forwarder.       *)
(*                                                                         *)
(* Spec    : one run of the script as the interpreter executes it: the     *)
(*           import check (lines 23-28) and the module-level statements    *)
(*           (lines 31-78).  pc = "send" stands for line 81; no run gets   *)
(*           there, so the statements behind it have no action in Next.    *)
(* SpecGen : generate_msg (lines 176-250) applied to every alert of the    *)
(*           bounded input set.                                            *)
(* SpecMain: main(sys.argv) (lines 86-324) entered directly, the pipeline  *)
(*           the __main__ guard starts once the module-level statements    *)
(*           have completed.                                               *)
(*                                                                         *)
(* Python values are modelled as one-field records: [str |-> s],           *)
(* [int |-> n], [none |-> TRUE], [tuple |-> seq], [list |-> seq] and       *)
(* [dict |-> seq of <<key, value>>] (insertion order kept, as in a Python  *)
(* dict).  sys.argv is a sequence: Python's argv[i] is argv[i + 1] here.   *)
(***************************************************************************)
EXTENDS Integers, Sequences, FiniteSets, TLC

VARIABLES
    argv,               \* sys.argv
    requests_ok,        \* whether `import requests` succeeds (line 24)
    alert_file_state,   \* the file at argv[1]: "missing", "garbage" or "json"
    alert_content,      \* the parsed content of that file when it is "json"
    options_file_state, \* the file an argument ending in "options" names
    pc,                 \* where the run is
    exit_code,          \* the process's exit status, -1 while it runs
    error,              \* the exception that ended the run, "none" otherwise
    log,                \* the lines appended to LOG_FILE by this run
    posts,              \* the HTTP POSTs performed, in order
    bound,              \* the names bound in the module's global namespace
    debug_enabled,      \* line 31
    alert_file,         \* line 46
    user,               \* line 47
    hook_url,           \* line 48
    alert_json,         \* line 52
    alert_level,        \* line 55
    agent,              \* lines 58-61
    json_options,       \* process_args: the local json_options (line 143)
    json_alert,         \* process_args: the local json_alert (line 147)
    g_msg,              \* generate_msg: the local dict msg
    g_out               \* generate_msg: the value returned

vars == <<argv, requests_ok, alert_file_state, alert_content, options_file_state,
          pc, exit_code, error, log, posts, bound, debug_enabled, alert_file,
          user, hook_url, alert_json, alert_level, agent, json_options,
          json_alert, g_msg, g_out>>

--------------------------------------------------------------------------
(* Bounds of the input sets *)

MaxArgc == 5
MaxLevel == 10

--------------------------------------------------------------------------
(* Program constants *)

ERR_NO_REQUEST_MODULE == 1
ERR_BAD_ARGUMENTS == 2
ERR_FILE_NOT_FOUND == 6
ERR_INVALID_JSON == 7

\* The exit status of the interpreter when an exception reaches the top level
\* (no handler encloses the module-level statements).
UNCAUGHT_EXIT == 1

\* exit_code while the process has not exited.
Running == 0 - 1

GREEN == "5763719"
YELLOW == "16705372"
RED == "15548997"

--------------------------------------------------------------------------
(* Inputs *)

Levels == (0 - 1) .. MaxLevel

ExtraArgs == {"debug", "conf.options"}

\* Every argument vector of 1 .. MaxArgc entries (argv[0] is the script).
Argvs ==
    { a \in UNION { [1 .. n -> {"custom-discord.py", "alert.json", "wazuh:key",
                                "https://discord.test/hook"} \cup ExtraArgs]
                    : n \in 1 .. MaxArgc } :
        /\ a[1] = "custom-discord.py"
        /\ Len(a) >= 2 => a[2] = "alert.json"
        /\ Len(a) >= 3 => a[3] = "wazuh:key"
        /\ Len(a) >= 4 => a[4] = "https://discord.test/hook"
        /\ \A i \in 5 .. Len(a) : a[i] \in ExtraArgs }

Empty == <<>>

\* The "rule" member of an alert: absent, or an object with some of id,
\* level and description.
Rules ==
    { [id |-> "100001", level |-> l] : l \in Levels }
    \cup { [id |-> "100001", level |-> l, description |-> "sshd login"] : l \in Levels }
    \cup { [level |-> 3], [id |-> "100001"] }

Agents == { [id |-> "001", name |-> "web01"], [id |-> "001"] }

Opt(key, values) == { Empty } \cup { key :> v : v \in values }

\* The alert objects the alert file may hold.
Alerts ==
    { r @@ a @@ al @@ lo @@ i @@ f :
        r \in Opt("rule", Rules),
        a \in Opt("agent", Agents),
        al \in Opt("agentless", { [host |-> "h1"] }),
        lo \in Opt("location", { "server1" }),
        i \in Opt("id", { "1690000000.1" }),
        f \in Opt("full_log", { "Failed password for root" }) }

Has(d, key) == key \in DOMAIN d

--------------------------------------------------------------------------
(* Python values and json.dumps *)

PyStr(s) == [str |-> s]
PyInt(n) == [int |-> n]
PyNone == [none |-> TRUE]
PyTuple(items) == [tuple |-> items]
PyList(items) == [list |-> items]
PyDict(pairs) == [dict |-> pairs]

\* d[key] = value on a dict: replaces the value in place when the key is
\* there, appends the pair otherwise.
SetItem(d, key, value) ==
    IF \E i \in 1 .. Len(d.dict) : d.dict[i][1] = key
    THEN PyDict([i \in 1 .. Len(d.dict) |->
                    IF d.dict[i][1] = key THEN <<key, value>> ELSE d.dict[i]])
    ELSE PyDict(Append(d.dict, <<key, value>>))

\* d[key] on a dict that has the key.
GetItem(d, key) ==
    d.dict[CHOOSE i \in 1 .. Len(d.dict) : d.dict[i][1] = key][2]

RECURSIVE JoinText(_, _)
\* sep.join(texts)
JoinText(texts, sep) ==
    IF texts = <<>> THEN ""
    ELSE IF Len(texts) = 1 THEN texts[1]
    ELSE texts[1] \o sep \o JoinText(Tail(texts), sep)

RECURSIVE json_dumps(_)
\* json.dumps(v) with the default separators.  A tuple is encoded as a list
\* is: a JSON array.  The strings of the input sets need no escaping.
json_dumps(v) ==
    IF Has(v, "str") THEN "\"" \o v.str \o "\""
    ELSE IF Has(v, "int") THEN ToString(v.int)
    ELSE IF Has(v, "none") THEN "null"
    ELSE IF Has(v, "tuple")
    THEN "[" \o JoinText([i \in 1 .. Len(v.tuple) |-> json_dumps(v.tuple[i])], ", ") \o "]"
    ELSE IF Has(v, "list")
    THEN "[" \o JoinText([i \in 1 .. Len(v.list) |-> json_dumps(v.list[i])], ", ") \o "]"
    ELSE "{" \o JoinText([i \in 1 .. Len(v.dict) |->
                    "\"" \o v.dict[i][1] \o "\": " \o json_dumps(v.dict[i][2])], ", ") \o "}"

RECURSIVE json_loads_dumps(_)
\* json.loads(json.dumps(v)): the document the serialized text denotes.  It is
\* v with every tuple turned into a list.
json_loads_dumps(v) ==
    IF Has(v, "tuple")
    THEN PyList([i \in 1 .. Len(v.tuple) |-> json_loads_dumps(v.tuple[i])])
    ELSE IF Has(v, "list")
    THEN PyList([i \in 1 .. Len(v.list) |-> json_loads_dumps(v.list[i])])
    ELSE IF Has(v, "dict")
    THEN PyDict([i \in 1 .. Len(v.dict) |->
                    <<v.dict[i][1], json_loads_dumps(v.dict[i][2])>>])
    ELSE v

--------------------------------------------------------------------------
(* generate_msg *)

\* color_of with the first comparison written level <= 5.
color_of_off_by_one(level) ==
    IF level <= 5 THEN GREEN
    ELSE IF level >= 5 /\ level <= 7 THEN YELLOW
    ELSE RED

\* Lines 195-203: the colour of a severity level.
color_of(level) ==
    IF level < 5 THEN GREEN
    ELSE IF level >= 5 /\ level <= 7 THEN YELLOW
    ELSE RED

\* msg_fields with the second test written elif: no Agentless Host entry
\* when the alert has an agent.
msg_fields_elif(alert, level) ==
    LET f0 == <<>>
        f1 == IF Has(alert, "agent")
              THEN Append(f0, PyDict(<<
                       <<"title", PyStr("Agent")>>,
                       <<"value", PyStr("(" \o alert.agent.id \o ") - "
                                        \o alert.agent.name)>> >>))
              ELSE IF Has(alert, "agentless")
              THEN Append(f0, PyDict(<<
                       <<"title", PyStr("Agentless Host")>>,
                       <<"value", PyStr(alert.agentless.host)>> >>))
              ELSE f0
        f3 == Append(f1, PyDict(<<
                       <<"title", PyStr("Location")>>,
                       <<"value", PyStr(alert.location)>> >>))
    IN  Append(f3, PyDict(<<
                       <<"title", PyStr("Rule ID")>>,
                       <<"value", PyStr(alert.rule.id \o " _(Level "
                                        \o ToString(level) \o ")_")>> >>))

\* Lines 228-246: msg['fields'], for an alert that has every key read here.
msg_fields(alert, level) ==
    LET f0 == <<>>
        f1 == IF Has(alert, "agent")
              THEN Append(f0, PyDict(<<
                       <<"title", PyStr("Agent")>>,
                       <<"value", PyStr("(" \o alert.agent.id \o ") - "
                                        \o alert.agent.name)>> >>))
              ELSE f0
        f2 == IF Has(alert, "agentless")
              THEN Append(f1, PyDict(<<
                       <<"title", PyStr("Agentless Host")>>,
                       <<"value", PyStr(alert.agentless.host)>> >>))
              ELSE f1
        f3 == Append(f2, PyDict(<<
                       <<"title", PyStr("Location")>>,
                       <<"value", PyStr(alert.location)>> >>))
    IN  Append(f3, PyDict(<<
                       <<"title", PyStr("Rule ID")>>,
                       <<"value", PyStr(alert.rule.id \o " _(Level "
                                        \o ToString(level) \o ")_")>> >>))

\* Line 224: the right-hand side ends in a comma, so it is a 1-tuple.
msg_title(alert) == PyTuple(<<PyStr("Wazuh Alert - Rule " \o alert.rule.id)>>)

\* Line 225.
msg_description(alert) ==
    IF Has(alert.rule, "description") THEN PyStr(alert.rule.description)
    ELSE PyStr("N/A")

\* Line 226: alert.get('full_log') is None when the key is absent.
msg_text(alert) ==
    IF Has(alert, "full_log") THEN PyStr(alert.full_log) ELSE PyNone

\* Whether a subscript of generate_msg (lines 192, 224, 233-234, 240, 242,
\* 248) raises KeyError on this alert.
generate_msg_raises(alert) ==
    \/ ~Has(alert, "rule")
    \/ ~Has(alert.rule, "level")
    \/ ~Has(alert.rule, "id")
    \/ Has(alert, "agent") /\ (~Has(alert.agent, "id") \/ ~Has(alert.agent, "name"))
    \/ Has(alert, "agentless") /\ ~Has(alert.agentless, "host")
    \/ ~Has(alert, "location")
    \/ ~Has(alert, "id")

\* Lines 192-248: the dict msg, for an alert on which nothing raises.
generate_msg_dict(alert, options) ==
    LET level == alert.rule.level
        color == color_of(level)
        m0 == PyDict(<<>>)
        m1 == SetItem(m0, "color", PyStr(color))
        m2 == SetItem(m1, "title", msg_title(alert))
        m3 == SetItem(m2, "description", msg_description(alert))
        m4 == SetItem(m3, "text", msg_text(alert))
        m5 == SetItem(m4, "fields", PyList(msg_fields(alert, level)))
    IN  SetItem(m5, "ts", PyStr(alert.id))

\* Lines 176-250: the string generate_msg returns.
generate_msg(alert, options) == json_dumps(generate_msg_dict(alert, options))

--------------------------------------------------------------------------
(* The run of the script: module-level statements *)

\* Names bound by lines 3-6 and 18-21.
StartNames ==
    {"json", "os", "sys", "time", "ERR_NO_REQUEST_MODULE", "ERR_BAD_ARGUMENTS",
     "ERR_FILE_NOT_FOUND", "ERR_INVALID_JSON"}

\* Names bound by lines 24-25.
ImportNames == {"requests", "HTTPBasicAuth"}

\* Names bound by lines 31-42.
GlobalNames ==
    {"debug_enabled", "pwd", "json_alert", "json_options", "LOG_FILE",
     "ALERT_INDEX", "WEBHOOK_INDEX"}

\* ExtractNames of a module body that also assigned color from the level.
ExtractNames_with_color == {"alert_level", "color"}

\* Names bound by line 55.
ExtractNames == {"alert_level"}

\* str.split(":")[0] on the identity argument: the text before the first colon.
SplitHead(s) ==
    IF \E h \in {"wazuh"}, t \in {"key"} : s = h \o ":" \o t
    THEN CHOOSE h \in {"wazuh"} : \E t \in {"key"} : s = h \o ":" \o t
    ELSE s

Init ==
    /\ argv \in Argvs
    /\ requests_ok \in BOOLEAN
    /\ alert_file_state \in {"missing", "garbage", "json"}
    /\ alert_content \in Alerts
    /\ alert_file_state # "json" => alert_content = Empty
    /\ options_file_state \in {"missing", "garbage", "json"}
    /\ pc = "import"
    /\ exit_code = Running
    /\ error = "none"
    /\ log = <<>>
    /\ posts = <<>>
    /\ bound = StartNames
    /\ debug_enabled = FALSE
    /\ alert_file = ""
    /\ user = ""
    /\ hook_url = ""
    /\ alert_json = Empty
    /\ alert_level = 0
    /\ agent = ""
    /\ json_options = PyNone
    /\ json_alert = Empty
    /\ g_msg = Empty
    /\ g_out = ""

\* An exception no handler catches: traceback on stderr, exit status 1.
Uncaught(e) ==
    /\ pc' = "exited"
    /\ error' = e
    /\ exit_code' = UNCAUGHT_EXIT

\* sys.exit(code)
SysExit(code) ==
    /\ pc' = "exited"
    /\ exit_code' = code

inputs == <<argv, requests_ok, alert_file_state, alert_content, options_file_state>>
genvars == <<json_options, json_alert, g_msg, g_out>>

\* Lines 23-28: the startup dependency check.
ImportRequests ==
    /\ pc = "import"
    /\ IF requests_ok
       THEN /\ bound' = bound \cup ImportNames
            /\ pc' = "globals"
            /\ UNCHANGED <<exit_code, error>>
       ELSE /\ SysExit(ERR_NO_REQUEST_MODULE)
            /\ UNCHANGED <<bound, error>>
    /\ UNCHANGED <<inputs, genvars, log, posts, debug_enabled, alert_file, user,
                   hook_url, alert_json, alert_level, agent>>

\* Lines 31-42: the module's globals.
ModuleGlobals ==
    /\ pc = "globals"
    /\ debug_enabled' = FALSE
    /\ bound' = bound \cup GlobalNames
    /\ pc' = "read_config"
    /\ UNCHANGED <<inputs, genvars, exit_code, error, log, posts, alert_file, user,
                   hook_url, alert_json, alert_level, agent>>

\* Lines 46-48: sys.argv[1], sys.argv[2].split(":")[0], sys.argv[3].
ReadConfiguration ==
    /\ pc = "read_config"
    /\ IF Len(argv) < 2
       THEN /\ Uncaught("IndexError")
            /\ UNCHANGED <<bound, alert_file, user, hook_url>>
       ELSE IF Len(argv) < 3
       THEN /\ Uncaught("IndexError")
            /\ alert_file' = argv[2]
            /\ bound' = bound \cup {"alert_file"}
            /\ UNCHANGED <<user, hook_url>>
       ELSE IF Len(argv) < 4
       THEN /\ Uncaught("IndexError")
            /\ alert_file' = argv[2]
            /\ user' = SplitHead(argv[3])
            /\ bound' = bound \cup {"alert_file", "user"}
            /\ UNCHANGED hook_url
       ELSE /\ alert_file' = argv[2]
            /\ user' = SplitHead(argv[3])
            /\ hook_url' = argv[4]
            /\ bound' = bound \cup {"alert_file", "user", "hook_url"}
            /\ pc' = "read_alert"
            /\ UNCHANGED <<exit_code, error>>
    /\ UNCHANGED <<inputs, genvars, log, posts, debug_enabled, alert_json,
                   alert_level, agent>>

\* Lines 51-52: open(alert_file) and json.loads of its content.
ReadAlertFile ==
    /\ pc = "read_alert"
    /\ IF alert_file_state = "missing"
       THEN /\ Uncaught("FileNotFoundError")
            /\ UNCHANGED <<bound, alert_json>>
       ELSE IF alert_file_state = "garbage"
       THEN /\ Uncaught("JSONDecodeError")
            /\ bound' = bound \cup {"f"}
            /\ UNCHANGED alert_json
       ELSE /\ alert_json' = alert_content
            /\ bound' = bound \cup {"f", "alert_json"}
            /\ pc' = "extract"
            /\ UNCHANGED <<exit_code, error>>
    /\ UNCHANGED <<inputs, genvars, log, posts, debug_enabled, alert_file, user,
                   hook_url, alert_level, agent>>

\* Line 55: alert_level = alert_json["rule"]["level"].
ExtractAlertFields ==
    /\ pc = "extract"
    /\ IF Has(alert_json, "rule") /\ Has(alert_json.rule, "level")
       THEN /\ alert_level' = alert_json.rule.level
            /\ bound' = bound \cup ExtractNames
            /\ pc' = "agent"
            /\ UNCHANGED <<exit_code, error>>
       ELSE /\ Uncaught("KeyError")
            /\ UNCHANGED <<bound, alert_level>>
    /\ UNCHANGED <<inputs, genvars, log, posts, debug_enabled, alert_file, user,
                   hook_url, alert_json, agent>>

\* Lines 58-61: the agent's name, or "agentless".
AgentDetails ==
    /\ pc = "agent"
    /\ IF Has(alert_json, "agentless")
       THEN /\ agent' = "agentless"
            /\ bound' = bound \cup {"agent"}
            /\ pc' = "combine"
            /\ UNCHANGED <<exit_code, error>>
       ELSE IF Has(alert_json, "agent") /\ Has(alert_json.agent, "name")
       THEN /\ agent' = alert_json.agent.name
            /\ bound' = bound \cup {"agent"}
            /\ pc' = "combine"
            /\ UNCHANGED <<exit_code, error>>
       ELSE /\ Uncaught("KeyError")
            /\ UNCHANGED <<bound, agent>>
    /\ UNCHANGED <<inputs, genvars, log, posts, debug_enabled, alert_file, user,
                   hook_url, alert_json, alert_level>>

\* Lines 64-78: data = json.dumps({...}).  The dict display is evaluated left to
\* right: the title (rule id), then the name color, then the description.
CombineMessage ==
    /\ pc = "combine"
    /\ IF ~Has(alert_json.rule, "id")
       THEN /\ Uncaught("KeyError")
            /\ UNCHANGED bound
       ELSE IF "color" \notin bound
       THEN /\ Uncaught("NameError")
            /\ UNCHANGED bound
       ELSE IF ~Has(alert_json.rule, "description")
       THEN /\ Uncaught("KeyError")
            /\ UNCHANGED bound
       ELSE /\ bound' = bound \cup {"data"}
            /\ pc' = "send"
            /\ UNCHANGED <<exit_code, error>>
    /\ UNCHANGED <<inputs, genvars, log, posts, debug_enabled, alert_file, user,
                   hook_url, alert_json, alert_level, agent>>

Next ==
    \/ ImportRequests
    \/ ModuleGlobals
    \/ ReadConfiguration
    \/ ReadAlertFile
    \/ ExtractAlertFields
    \/ AgentDetails
    \/ CombineMessage

Spec == Init /\ [][Next]_vars

--------------------------------------------------------------------------
(* generate_msg applied to every alert of the input set *)

InitGen ==
    /\ argv = <<"custom-discord.py", "alert.json", "wazuh:key",
                "https://discord.test/hook">>
    /\ requests_ok = TRUE
    /\ alert_file_state = "json"
    /\ alert_content \in Alerts
    /\ options_file_state = "missing"
    /\ pc = "generate_msg"
    /\ exit_code = Running
    /\ error = "none"
    /\ log = <<>>
    /\ posts = <<>>
    /\ bound = StartNames \cup ImportNames \cup GlobalNames
    /\ debug_enabled = FALSE
    /\ alert_file = ""
    /\ user = ""
    /\ hook_url = ""
    /\ alert_json = Empty
    /\ alert_level = 0
    /\ agent = ""
    /\ json_options = PyNone
    /\ json_alert = Empty
    /\ g_msg = Empty
    /\ g_out = ""

\* One call generate_msg(alert_content, {}): it returns the serialized
\* message or raises KeyError.
GenerateMsg ==
    /\ pc = "generate_msg"
    /\ IF generate_msg_raises(alert_content)
       THEN /\ pc' = "raised"
            /\ error' = "KeyError"
            /\ UNCHANGED genvars
       ELSE /\ pc' = "returned"
            /\ g_msg' = generate_msg_dict(alert_content, Empty)
            /\ g_out' = generate_msg(alert_content, Empty)
            /\ UNCHANGED <<json_options, json_alert, error>>
    /\ UNCHANGED <<inputs, exit_code, log, posts, bound, debug_enabled, alert_file,
                   user, hook_url, alert_json, alert_level, agent>>

NextGen == GenerateMsg

SpecGen == InitGen /\ [][NextGen]_vars

--------------------------------------------------------------------------
(* main(sys.argv): the pipeline behind the __main__ guard *)

\* args[idx][-7:] == "options" (line 138), on the arguments of the input set.
EndsWithOptions(s) == \E x \in {"", "conf."} : s = x \o "options"

\* Lines 134-140: the first argument from index 4 on that ends in "options",
\* '' when there is none.
options_file_location(args) ==
    IF \E i \in 5 .. Len(args) : EndsWithOptions(args[i])
    THEN args[CHOOSE i \in 5 .. Len(args) :
                /\ EndsWithOptions(args[i])
                /\ \A j \in 5 .. (i - 1) : ~EndsWithOptions(args[j])]
    ELSE ""

\* Lines 92-98: the invocation line.
invocation_line(args) ==
    JoinText(<<args[2], args[3], args[4],
               IF Len(args) > 4 THEN args[5] ELSE "",
               IF Len(args) > 5 THEN args[6] ELSE "">>, " ")

\* Lines 160-173: debug(msg) appends msg to LOG_FILE when the flag is set.
\* The texts are the format strings; the values formatted in are left out.
debug(l, enabled, msg) == IF enabled THEN Append(l, msg) ELSE l

InitMain ==
    /\ argv \in Argvs
    /\ requests_ok = TRUE
    /\ alert_file_state \in {"missing", "garbage", "json"}
    /\ alert_content \in Alerts
    /\ alert_file_state # "json" => alert_content = Empty
    /\ options_file_state \in {"missing", "garbage", "json"}
    /\ pc = "main"
    /\ exit_code = Running
    /\ error = "none"
    /\ log = <<>>
    /\ posts = <<>>
    /\ bound = StartNames \cup ImportNames \cup GlobalNames
    /\ debug_enabled = FALSE
    /\ alert_file = ""
    /\ user = ""
    /\ hook_url = ""
    /\ alert_json = Empty
    /\ alert_level = 0
    /\ agent = ""
    /\ json_options = PyNone
    /\ json_alert = Empty
    /\ g_msg = Empty
    /\ g_out = ""

modvars == <<bound, alert_file, user, hook_url, alert_json, alert_level, agent>>

\* Lines 88-113: the invocation line is written, then too few arguments end
\* the run.
MainStart ==
    /\ pc = "main"
    /\ IF Len(argv) >= 4
       THEN /\ debug_enabled' = (Len(argv) > 4 /\ argv[5] = "debug")
            /\ log' = Append(log, invocation_line(argv) \o "\n")
            /\ pc' = "process_args"
            /\ UNCHANGED exit_code
       ELSE /\ log' = debug(Append(log, "# ERROR: Wrong arguments\n"), debug_enabled,
                            "# ERROR: Exiting, bad arguments. Inputted: %s")
            /\ SysExit(ERR_BAD_ARGUMENTS)
            /\ UNCHANGED debug_enabled
    /\ UNCHANGED <<inputs, modvars, genvars, error, posts>>

\* Lines 129-144 and 298-324: get_json_options returns None when the file is
\* missing (open('') raises FileNotFoundError too) and exits on any other
\* failure.
LoadOptions ==
    /\ pc = "process_args"
    /\ LET l1 == debug(log, debug_enabled, "# Running Discord script")
           loc == options_file_location(argv)
       IN  IF loc = "" \/ options_file_state = "missing"
           THEN /\ json_options' = PyNone
                /\ log' = debug(debug(l1, debug_enabled,
                                      "# JSON file for options %s doesn't exist"),
                                debug_enabled, "# Opening options file at '%s' with '%s'")
                /\ pc' = "load_alert"
                /\ UNCHANGED exit_code
           ELSE IF options_file_state = "garbage"
           THEN /\ log' = debug(l1, debug_enabled,
                                "Failed getting JSON options. Error: %s")
                /\ SysExit(ERR_INVALID_JSON)
                /\ UNCHANGED json_options
           ELSE /\ json_options' = PyDict(<<>>)
                /\ log' = debug(l1, debug_enabled,
                                "# Opening options file at '%s' with '%s'")
                /\ pc' = "load_alert"
                /\ UNCHANGED exit_code
    /\ UNCHANGED <<inputs, modvars, json_alert, g_msg, g_out, error, posts,
                   debug_enabled>>

\* Lines 147-148 and 267-296: get_json_alert.
LoadAlert ==
    /\ pc = "load_alert"
    /\ IF alert_file_state = "missing"
       THEN /\ log' = debug(log, debug_enabled, "# JSON file for alert %s doesn't exist")
            /\ SysExit(ERR_FILE_NOT_FOUND)
            /\ UNCHANGED json_alert
       ELSE IF alert_file_state = "garbage"
       THEN /\ log' = debug(log, debug_enabled, "Failed getting JSON alert. Error: %s")
            /\ SysExit(ERR_INVALID_JSON)
            /\ UNCHANGED json_alert
       ELSE /\ json_alert' = alert_content
            /\ log' = debug(log, debug_enabled, "# Opening alert file at '%s' with '%s'")
            /\ pc' = "generate"
            /\ UNCHANGED exit_code
    /\ UNCHANGED <<inputs, modvars, json_options, g_msg, g_out, error, posts,
                   debug_enabled>>

\* Lines 150-155: generate_msg; a KeyError is logged by main's handler (lines
\* 115-117) and raised again.  The string returned is never empty.
BuildMessage ==
    /\ pc = "generate"
    /\ LET l1 == debug(log, debug_enabled, "# Generating message")
       IN  IF generate_msg_raises(json_alert)
           THEN /\ log' = debug(l1, debug_enabled, "KeyError")
                /\ Uncaught("KeyError")
                /\ UNCHANGED <<g_msg, g_out>>
           ELSE /\ g_msg' = generate_msg_dict(json_alert, json_options)
                /\ g_out' = generate_msg(json_alert, json_options)
                /\ log' = l1
                /\ pc' = "send_msg"
                /\ UNCHANGED <<exit_code, error>>
    /\ UNCHANGED <<inputs, modvars, json_options, json_alert, posts, debug_enabled>>

\* Lines 157-158 and 252-265: one requests.post, which returns a response or
\* raises a transport error; after it main returns and the process ends.
SendMsg ==
    /\ pc = "send_msg"
    /\ LET l1 == debug(log, debug_enabled, "# Sending message %s to Discord server")
       IN  \/ /\ posts' = Append(posts, [url |-> argv[4], data |-> g_out])
              /\ log' = debug(l1, debug_enabled, "# Response received: %s")
              /\ SysExit(0)
              /\ UNCHANGED error
           \/ /\ posts' = posts
              /\ log' = debug(l1, debug_enabled, "ConnectionError")
              /\ Uncaught("ConnectionError")
    /\ UNCHANGED <<inputs, modvars, genvars, debug_enabled>>

NextMain ==
    \/ MainStart
    \/ LoadOptions
    \/ LoadAlert
    \/ BuildMessage
    \/ SendMsg

SpecMain == InitMain /\ [][NextMain]_vars

--------------------------------------------------------------------------
(* Properties of a run of the script (Spec) *)

Exited == pc = "exited"

\* The alert file holds an alert generate_msg accepts: rule.id, rule.level,
\* location and id are there, and agent / agentless are complete if present.
AlertComplete == alert_file_state = "json" /\ ~generate_msg_raises(alert_content)

\* C1: a run with at least 4 arguments, a readable alert file and an alert
\* carrying rule.id, rule.level, location and id performs exactly one POST to
\* the webhook URL, with the built message as body, and exits with code 0.
\* (The requests module is importable and the options file is not malformed.)
C1_OnePostThenExitZero ==
    (/\ Exited
     /\ requests_ok
     /\ Len(argv) >= 4
     /\ AlertComplete
     /\ options_file_state # "garbage")
    => /\ exit_code = 0
       /\ posts = <<[url |-> argv[4], data |-> generate_msg(alert_content, Empty)]>>

\* C2: with fewer than 4 arguments the run exits with code 2, the marker
\* '# ERROR: Wrong arguments' is appended to the log file, no alert file is
\* read and no POST is performed.
C2_BadArgumentsExitTwo ==
    (Exited /\ requests_ok /\ Len(argv) < 4)
    => /\ exit_code = ERR_BAD_ARGUMENTS
       /\ \E i \in 1 .. Len(log) : log[i] = "# ERROR: Wrong arguments\n"
       /\ "alert_json" \notin bound
       /\ json_alert = Empty
       /\ posts = <<>>

\* C3: a missing alert file ends the run with code 6, an alert file that is
\* not valid JSON with code 7, and no POST is performed in either case.
C3_AlertLoadFailureCodes ==
    (Exited /\ requests_ok /\ Len(argv) >= 4 /\ options_file_state # "garbage")
    => /\ alert_file_state = "missing" => exit_code = ERR_FILE_NOT_FOUND /\ posts = <<>>
       /\ alert_file_state = "garbage" => exit_code = ERR_INVALID_JSON /\ posts = <<>>

\* C4: when no argument ends in 'options', or the named file is absent, the
\* run continues as with empty options: the alert is loaded, the message is
\* built and delivered, and the process completes normally.
C4_MissingOptionsCompletes ==
    (/\ Exited
     /\ requests_ok
     /\ Len(argv) >= 4
     /\ AlertComplete
     /\ (options_file_location(argv) = "" \/ options_file_state = "missing"))
    => /\ exit_code = 0
       /\ error = "none"
       /\ posts = <<[url |-> argv[4], data |-> generate_msg(alert_content, Empty)]>>

\* C8: the alert file is loaded before the options file: a run whose alert
\* file is missing and whose options file is malformed exits with code 6,
\* not with code 7.
C8_AlertBeforeOptions ==
    (/\ Exited
     /\ requests_ok
     /\ Len(argv) >= 4
     /\ options_file_location(argv) # ""
     /\ alert_file_state = "missing"
     /\ options_file_state = "garbage")
    => exit_code = ERR_FILE_NOT_FOUND

\* C9: every run appends exactly one invocation line to the log file, before
\* any file is loaded and before any POST; the debug flag is set only when
\* args[4] is 'debug', and while it is unset the invocation line is all the
\* run adds to the log file.
C9_OneInvocationLine ==
    /\ ("alert_json" \in bound \/ json_alert # Empty \/ posts # <<>>) => log # <<>>
    /\ (Exited /\ requests_ok /\ Len(argv) >= 4)
       => /\ log # <<>>
          /\ log[1] = invocation_line(argv) \o "\n"
          /\ \A i \in 2 .. Len(log) : log[i] # log[1]
          /\ debug_enabled => (Len(argv) > 4 /\ argv[5] = "debug")
          /\ ~debug_enabled => Len(log) = 1

ModuleLabels ==
    {"import", "globals", "read_config", "read_alert", "extract", "agent", "combine"}

\* C10: the module-level statements run before main and never complete:
\* the name color is never bound, so every run that passes the import check
\* ends with an uncaught error at or before the payload construction; no run
\* reaches the module-level POST, main, the invocation log write or send_msg,
\* and no run exits with code 0, 2, 6 or 7.
C10_ModuleBodyNeverCompletes ==
    /\ pc \in ModuleLabels \cup {"exited"}
    /\ "color" \notin bound
    /\ "data" \notin bound
    /\ posts = <<>>
    /\ log = <<>>
    /\ g_out = ""
    /\ exit_code \notin {0, ERR_BAD_ARGUMENTS, ERR_FILE_NOT_FOUND, ERR_INVALID_JSON}
    /\ (Exited /\ requests_ok)
       => /\ exit_code = UNCAUGHT_EXIT
          /\ error \in {"IndexError", "FileNotFoundError", "JSONDecodeError",
                        "KeyError", "NameError"}
    /\ (Exited /\ ~requests_ok) => exit_code = ERR_NO_REQUEST_MODULE /\ error = "none"

\* C10's case: a run with a complete alert gets as far as the payload
\* construction and dies there on the unbound name.
C10_Witness ==
    /\ Exited
    /\ error = "NameError"
    /\ exit_code = UNCAUGHT_EXIT
    /\ Len(argv) >= 4
    /\ AlertComplete
    /\ "agent" \in bound
    /\ posts = <<>>

--------------------------------------------------------------------------
(* Properties of generate_msg (SpecGen) *)

Returned == pc = "returned"

\* The document the returned text denotes.
Payload == json_loads_dumps(g_msg)

Field(title, value) == PyDict(<< <<"title", PyStr(title)>>, <<"value", PyStr(value)>> >>)

\* C5: the colour is a total three-tier function of the level alone: green
\* '5763719' below 5, yellow '16705372' from 5 to 7, red '15548997' above 7;
\* levels 4, 5, 7, 8 give green, yellow, yellow, red.
C5_ColorTiers ==
    Returned =>
        LET L == alert_content.rule.level
            c == GetItem(Payload, "color")
        IN  /\ g_out = json_dumps(Payload)
            /\ L < 5 => c = PyStr("5763719")
            /\ (5 <= L /\ L <= 7) => c = PyStr("16705372")
            /\ L > 7 => c = PyStr("15548997")
            /\ L = 4 => c = PyStr("5763719")
            /\ L = 5 => c = PyStr("16705372")
            /\ L = 7 => c = PyStr("16705372")
            /\ L = 8 => c = PyStr("15548997")
            /\ c \in {PyStr("5763719"), PyStr("16705372"), PyStr("15548997")}

\* C5's case: a message built for the boundary level 5 is yellow.
C5_Witness ==
    /\ Returned
    /\ alert_content.rule.level = 5
    /\ GetItem(Payload, "color") = PyStr("16705372")

\* The field list of the claim as written: Agent, else Agentless Host, then
\* Location, then Rule ID = '<rule.id> (Level <rule.level>)'.
FieldsAsClaimed(a) ==
    (IF Has(a, "agent")
     THEN <<Field("Agent", "(" \o a.agent.id \o ") - " \o a.agent.name)>>
     ELSE IF Has(a, "agentless")
     THEN <<Field("Agentless Host", a.agentless.host)>>
     ELSE <<>>)
    \o <<Field("Location", a.location),
         Field("Rule ID", a.rule.id \o " (Level " \o ToString(a.rule.level) \o ")")>>

\* The field list as amended: Agent if agent is present, then Agentless Host
\* if agentless is present, then Location, then Rule ID =
\* '<rule.id> _(Level <rule.level>)_'.
FieldsAsAmended(a) ==
    (IF Has(a, "agent")
     THEN <<Field("Agent", "(" \o a.agent.id \o ") - " \o a.agent.name)>>
     ELSE <<>>)
    \o (IF Has(a, "agentless")
        THEN <<Field("Agentless Host", a.agentless.host)>>
        ELSE <<>>)
    \o <<Field("Location", a.location),
         Field("Rule ID", a.rule.id \o " _(Level " \o ToString(a.rule.level) \o ")_")>>

C7_TitleIsString ==
    Returned =>
        /\ GetItem(Payload, "title") = PyStr("Alert - Rule " \o alert_content.rule.id)
        /\ g_out = json_dumps(SetItem(Payload, "title",
                        PyStr("Alert - Rule " \o alert_content.rule.id)))

====
